---- MODULE Spec2Model ----
(***************************************************************************)
(* A model of the SaaS growth advisor agent (search_agent/growth_agent.py).*)
(*                                                                         *)
(* Texts are strings; a character is a string of length 1.  The module     *)
(* holds these state machines over one set of variables:                  *)
(*   SpecStream    GrowthAgent._stream_response run on one message         *)
(*   SpecStreamFair  SpecStream, where the streamer takes its next step    *)
(*   SpecClassify  GrowthAgent._needs_search run on one query              *)
(*   Spec          GrowthAgent.assist: requests in flight on the shared    *)
(*                 profile store, suspended at the generation and search   *)
(*                 calls                                                   *)
(*   SpecHung      Spec, where the external calls of request 2 return in   *)
(*                 the end and those of request 1 may never return         *)
(*   SpecStartup   the start of the process: main of startup.py, or the    *)
(*                 __main__ block of growth_agent.py, up to the server     *)
(*                 handling requests                                       *)
(***************************************************************************)
EXTENDS Naturals, Sequences, FiniteSets, TLC

VARIABLES
    \* ---- _stream_response (SpecStream) ----
    message,        \* the text passed to _stream_response
    chunks,         \* re.findall(r'\S+\s*', message), the part not yet looped over
    buffer,         \* the local buffer
    emitted,        \* the chunks given to stream.emit_chunk, in order
    stream_pc,      \* "off" | "start" | "loop" | "done"
    \* ---- _needs_search (SpecClassify) ----
    query,          \* the text passed to _needs_search
    classify_pc,    \* "off" | "explicit" | "short" | "factual" | "keyword" | "done"
    result,         \* "none" | "true" | "false" | "IndexError"
    \* ---- assist (Spec) ----
    user_memory,    \* self._user_memory: session identifier -> profile record or NoProfile
    clock,          \* datetime.now(), as the number of records created so far
    pc,             \* per request: where its coroutine stands
    user_id,        \* per request: session.processor_id
    prompt,         \* per request: query.prompt
    found,          \* per request: self._user_memory[user_id] as assist found it (lines 69, 95)
    search_results, \* per request: the local search_results of line 195
    in_try,         \* per request: _provide_growth_advice was called inside the try block
    log,            \* per request: what it emitted, the calls it made and those that raised, in order
    error,          \* per request: the exception that left assist, or "none"
    \* ---- the start of the process (SpecStartup) ----
    env,            \* os.getenv after load_dotenv(): variable name -> "None", "" or a key
    entry,          \* the script that is run: "startup.py" | "growth_agent.py" | "none"
    startup_pc,     \* where the start stands
    test_results,   \* what the search of verify_tavily_connection gave (line 49)
    response,       \* what the query of verify_model_connection gave (line 71)
    agent,          \* the attributes GrowthAgent.__init__ has set so far
    server,         \* "none" | "running": DefaultServer(agent).run()
    served          \* the number of requests the server has handed to agent.assist

stream_vars == <<message, chunks, buffer, emitted, stream_pc>>

classify_vars == <<query, classify_pc, result>>

agent_vars ==
    <<user_memory, clock, pc, user_id, prompt, found, search_results, in_try, log, error>>

startup_vars == <<env, entry, startup_pc, test_results, response, agent, server, served>>

vars == <<message, chunks, buffer, emitted, stream_pc, query, classify_pc, result,
          user_memory, clock, pc, user_id, prompt, found, search_results, in_try, log,
          error, env, entry, startup_pc, test_results, response, agent, server, served>>

(***************************************************************************)
(* Bounds of the model and constants of the program.                       *)
(***************************************************************************)
MaxLen == 7             \* longest message given to the streamer in SpecStream
MaxPieces == 4          \* most pieces of a query given to the classifier in SpecClassify
MaxServed == 2          \* most requests the server hands to the agent in SpecStartup

MinChunkWords == 3      \* len(buffer.split()) >= 3
ShortQueryWords == 3    \* len(words) <= 3, len(words) > 3
MinIdeaLength == 5      \* len(prompt.strip()) < 5
TopResults == 3         \* search_results["results"][:3]
MaxResults == 5         \* max_results=5

(***************************************************************************)
(* Strings.                                                                *)
(***************************************************************************)
CharAt(s, i) == SubSeq(s, i, i)

\* Python's str.isspace for the characters of the model, the class \s of re.
IsSpace(c) == c \in {" ", "\n", "\t"}

\* The last index j >= i-1 such that s[i..j] are all spaces (sp) or all
\* non-spaces (~sp): the end of a maximal run starting at i.
RunEnd(s, i, sp) ==
    CHOOSE j \in (i - 1)..Len(s) :
        /\ \A k \in i..j : IsSpace(CharAt(s, k)) = sp
        /\ (j = Len(s) \/ IsSpace(CharAt(s, j + 1)) # sp)

\* re.findall(r'\S+\s*', s) from index i on: leading whitespace matches
\* nothing and is skipped; a token is a run of non-spaces and the run of
\* spaces that follows it.
RECURSIVE FindallFrom(_, _)
FindallFrom(s, i) ==
    IF i > Len(s) THEN <<>>
    ELSE IF IsSpace(CharAt(s, i)) THEN FindallFrom(s, RunEnd(s, i, TRUE) + 1)
    ELSE LET e == RunEnd(s, RunEnd(s, i, FALSE) + 1, TRUE)
         IN  <<SubSeq(s, i, e)>> \o FindallFrom(s, e + 1)

Findall(s) == FindallFrom(s, 1)

\* str.split(): the maximal runs of non-spaces.
RECURSIVE SplitFrom(_, _)
SplitFrom(s, i) ==
    IF i > Len(s) THEN <<>>
    ELSE IF IsSpace(CharAt(s, i)) THEN SplitFrom(s, RunEnd(s, i, TRUE) + 1)
    ELSE LET e == RunEnd(s, i, FALSE)
         IN  <<SubSeq(s, i, e)>> \o SplitFrom(s, e + 1)

Split(s) == SplitFrom(s, 1)

\* str.strip()
Strip(s) ==
    IF \A k \in 1..Len(s) : IsSpace(CharAt(s, k)) THEN ""
    ELSE LET a == CHOOSE k \in 1..Len(s) :
                      /\ ~IsSpace(CharAt(s, k))
                      /\ \A j \in 1..(k - 1) : IsSpace(CharAt(s, j))
             b == CHOOSE k \in 1..Len(s) :
                      /\ ~IsSpace(CharAt(s, k))
                      /\ \A j \in (k + 1)..Len(s) : IsSpace(CharAt(s, j))
         IN  SubSeq(s, a, b)

\* str.endswith(t)
EndsWith(s, t) == Len(s) >= Len(t) /\ SubSeq(s, Len(s) - Len(t) + 1, Len(s)) = t

\* str.startswith(t), a pattern anchored with ^
StartsWith(s, t) == Len(s) >= Len(t) /\ SubSeq(s, 1, Len(t)) = t

\* t in s
Contains(s, t) == \E i \in 1..(Len(s) - Len(t) + 1) : SubSeq(s, i, i + Len(t) - 1) = t

\* str.lower() on the letters of the model's texts
UpperCase == "ABCDEFGHIJKLMNOPQRSTUVWXYZ"
LowerCase == "abcdefghijklmnopqrstuvwxyz"

LowerChar(c) ==
    IF \E i \in 1..Len(UpperCase) : CharAt(UpperCase, i) = c
    THEN CharAt(LowerCase, CHOOSE i \in 1..Len(UpperCase) : CharAt(UpperCase, i) = c)
    ELSE c

RECURSIVE LowerFrom(_, _)
LowerFrom(s, i) == IF i > Len(s) THEN "" ELSE LowerChar(CharAt(s, i)) \o LowerFrom(s, i + 1)

Lower(s) == LowerFrom(s, 1)

\* "".join(seq)
RECURSIVE Join(_)
Join(seq) == IF seq = <<>> THEN "" ELSE Head(seq) \o Join(Tail(seq))

(***************************************************************************)
(* GrowthAgent._stream_response                                            *)
(***************************************************************************)
Terminators == {".", "!", "?", ":", ";", "\n"}

\* chunk.endswith(('.', '!', '?', ':', ';', '\n'))
EndsWithTerminator(chunk) == \E t \in Terminators : EndsWith(chunk, t)

FlushAtTerminator(buf, chunk) == EndsWithTerminator(chunk)

FlushAtTwoWords(buf, chunk) == Len(Split(buf)) >= 2 \/ EndsWithTerminator(chunk)

\* line 128, with buf the buffer after "buffer += chunk"
ShouldFlush(buf, chunk) == Len(Split(buf)) >= MinChunkWords \/ EndsWithTerminator(chunk)

\* One iteration of the for loop (lines 126-130): the buffer and the chunks
\* emitted so far, after the iteration on `chunk`.
LoopBody(st, chunk) ==
    LET buf == st.buffer \o chunk
    IN  IF ShouldFlush(buf, chunk)
        THEN [buffer |-> "", out |-> Append(st.out, buf)]
        ELSE [buffer |-> buf, out |-> st.out]

EmitRestAlways(st) == Append(st.out, st.buffer)

\* Lines 132-134: the remainder.
EmitRest(st) == IF st.buffer # "" THEN Append(st.out, st.buffer) ELSE st.out

RECURSIVE StreamLoop(_, _)
StreamLoop(st, toks) ==
    IF toks = <<>> THEN st ELSE StreamLoop(LoopBody(st, Head(toks)), Tail(toks))

\* The chunks _stream_response(msg, stream) emits, in order.
StreamChunks(msg) == EmitRest(StreamLoop([buffer |-> "", out |-> <<>>], Findall(msg)))

(***************************************************************************)
(* SpecStream: _stream_response on every message of at most MaxLen         *)
(* characters over StreamAlphabet, one loop iteration per step.            *)
(***************************************************************************)
StreamAlphabet == {"a", " ", ".", "\n"}

RECURSIVE StringsOfLen(_, _)
StringsOfLen(alphabet, n) ==
    IF n = 0 THEN {""}
    ELSE {s \o c : s \in StringsOfLen(alphabet, n - 1), c \in alphabet}

StringsUpTo(alphabet, n) == UNION {StringsOfLen(alphabet, k) : k \in 0..n}

\* The requests and session identifiers of Spec.
Requests == {1, 2}

Sessions == {"U1", "U2"}

NoProfile == [absent |-> TRUE]

Unset == [unset |-> TRUE]

\* The state after GrowthAgent.__init__ (line 52): no record, no request.
AgentIdle ==
    /\ user_memory = [s \in Sessions |-> NoProfile]
    /\ clock = 0
    /\ pc = [r \in Requests |-> "idle"]
    /\ user_id = [r \in Requests |-> "none"]
    /\ prompt = [r \in Requests |-> ""]
    /\ found = [r \in Requests |-> Unset]
    /\ search_results = [r \in Requests |-> Unset]
    /\ in_try = [r \in Requests |-> FALSE]
    /\ log = [r \in Requests |-> <<>>]
    /\ error = [r \in Requests |-> "none"]

\* GrowthAgent.__init__ has set no attribute / has set them all.
NoAgent == [model_provider |-> FALSE, search_provider |-> FALSE, user_memory |-> FALSE]

WholeAgent == [model_provider |-> TRUE, search_provider |-> TRUE, user_memory |-> TRUE]

\* The start of the process is not looked at: both keys are set, the agent
\* is constructed and served.
StartupIdle ==
    /\ env = [MODEL_API_KEY |-> "key", TAVILY_API_KEY |-> "key"]
    /\ entry = "none"
    /\ startup_pc = "off"
    /\ test_results = Unset
    /\ response = Unset
    /\ agent = WholeAgent
    /\ server = "running"
    /\ served = 0

ClassifyIdle ==
    /\ query = ""
    /\ classify_pc = "off"
    /\ result = "none"

StreamIdle ==
    /\ message = ""
    /\ chunks = <<>>
    /\ buffer = ""
    /\ emitted = <<>>
    /\ stream_pc = "off"

InitStream ==
    /\ message \in StringsUpTo(StreamAlphabet, MaxLen)
    /\ chunks = <<>>
    /\ buffer = ""
    /\ emitted = <<>>
    /\ stream_pc = "start"
    /\ ClassifyIdle
    /\ AgentIdle
    /\ StartupIdle

\* Lines 122-125.
StreamTokenize ==
    /\ stream_pc = "start"
    /\ chunks' = Findall(message)
    /\ buffer' = ""
    /\ stream_pc' = "loop"
    /\ UNCHANGED <<message, emitted>>
    /\ UNCHANGED <<classify_vars, agent_vars, startup_vars>>

\* Lines 126-130, one iteration.
StreamIterate ==
    /\ stream_pc = "loop"
    /\ chunks # <<>>
    /\ LET st == LoopBody([buffer |-> buffer, out |-> emitted], Head(chunks))
       IN  /\ buffer' = st.buffer
           /\ emitted' = st.out
    /\ chunks' = Tail(chunks)
    /\ UNCHANGED <<message, stream_pc>>
    /\ UNCHANGED <<classify_vars, agent_vars, startup_vars>>

\* Lines 132-134.
StreamFinish ==
    /\ stream_pc = "loop"
    /\ chunks = <<>>
    /\ emitted' = EmitRest([buffer |-> buffer, out |-> emitted])
    /\ buffer' = buffer
    /\ stream_pc' = "done"
    /\ UNCHANGED <<message, chunks>>
    /\ UNCHANGED <<classify_vars, agent_vars, startup_vars>>

NextStream == StreamTokenize \/ StreamIterate \/ StreamFinish

SpecStream == InitStream /\ [][NextStream]_vars

(***************************************************************************)
(* GrowthAgent._needs_search                                               *)
(*                                                                         *)
(* A pattern of the source is written as the finite set of strings it      *)
(* matches, built with Cat (concatenation), Opt (x?) and union (x|y);      *)
(* re.search(p, s) holds iff s contains a string of p's set, and for a     *)
(* pattern anchored with ^ iff s starts with one.                          *)
(***************************************************************************)
Cat(A, B) == {a \o b : a \in A, b \in B}

Opt(A) == A \cup {""}

\* Lines 332-341.
explicit_search_patterns == <<
    {"search for"},
    {"look up"},
    Cat(Cat({"find"}, Opt({" information", " details"})), Opt({" about", " on"})),
    {"research"},
    {"google"},
    Cat({"can you "}, {"search", "look", "find"}),
    Cat(Cat({"show", "tell"}, {" me "}), {"about", "the"}),
    Cat(Cat({"get"}, Opt({" me"})), {" information"}) >>

\* Lines 349-371: the patterns anchored with ^ ...
factual_anchored_patterns == <<
    Cat(Cat({"what", "who", "where", "when", "which"}, {" "}),
        {"is", "are", "was", "were", "do", "does", "did", "has", "have", "had",
         "can", "could", "should", "would", "will"}),
    {"what's", "who's", "where's", "when's"},
    Cat({"how "}, {"do", "does", "did", "can", "could", "would", "should", "to",
                   "many", "much", "long"}),
    Cat(Cat(Cat({"get", "tell", "show"}, Opt({" me"})), {" "}), {"the", "a", "some", "all"}) >>

\* ... and the ones that match anywhere.
factual_floating_patterns == <<
    Cat(Cat(Cat({"list", "name", "what are"} \cup Cat({"give"}, Opt({" me"})),
                Opt({" the", " some", " a few", " all"})), {" "}),
        {"examples", "types", "kinds", "categories", "options", "alternatives",
         "companies", "tools", "solutions"}),
    Cat(Cat(Cat({"i need", "i want", "i'm looking for"}, Opt({" some", " more"})),
            {" information"}), Opt({" about", " on"})),
    {"current", "recent", "latest", "today", "trending", "new"}
        \cup Cat({"this "}, {"week", "month", "year"}),
    {"compare", "comparison", "versus", "difference between", "better"}
        \cup Cat({"vs"}, Opt({"."})) >>

\* Lines 377-378.
continuation_words ==
    {"their", "they", "them", "these", "those", "this", "that", "it", "its", "any", "the"}

information_words ==
    {"contact", "email", "website", "address", "phone", "details", "info", "information"}

\* Lines 394-410.
universal_search_indicators == {
    "market", "industry", "statistics", "data", "report", "survey", "research",
    "analysis", "trend", "growth", "forecast", "projection", "estimate",
    "contact", "email", "phone", "address", "website", "form", "application",
    "directory", "list", "database", "source", "reference",
    "conference", "event", "summit", "webinar", "schedule", "agenda", "calendar",
    "date", "time", "deadline", "upcoming", "this week", "this month", "this year",
    "competitor", "alternative", "similar", "leader", "trending", "popular", "top",
    "review", "rating", "ranking", "best", "worst", "versus", "vs" }

\* re.search(pattern, s) for a pattern without ^
Search(pattern, s) == \E t \in pattern : Contains(s, t)

\* re.search(pattern, s) for a pattern that starts with ^
SearchAnchored(pattern, s) == \E t \in pattern : StartsWith(s, t)

\* Line 329.
QueryLower(q) == Strip(Lower(q))

\* Lines 343-346: some explicit pattern matches.
MatchesExplicit(ql) ==
    \E i \in 1..Len(explicit_search_patterns) : Search(explicit_search_patterns[i], ql)

\* Line 381, which reads words[0]: evaluated only where len(words) <= 3.
\* "raise" stands for the IndexError of words[0] on an empty list.
ShortQueryCheck(words) ==
    IF words = <<>> THEN "raise"
    ELSE IF \/ words[1] \in continuation_words
            \/ \E i \in 1..Len(words) : words[i] \in information_words
         THEN "true"
         ELSE "false"

\* Lines 387-390: some factual pattern matches.
MatchesFactual(ql) ==
    \/ \E i \in 1..Len(factual_anchored_patterns) :
           SearchAnchored(factual_anchored_patterns[i], ql)
    \/ \E i \in 1..Len(factual_floating_patterns) :
           Search(factual_floating_patterns[i], ql)

\* Lines 413-416.
MatchesIndicator(ql) == \E t \in universal_search_indicators : Contains(ql, t)

\* Line 386: the guard of the factual tier.
FactualTierApplies(words) == Len(words) > ShortQueryWords

\* Line 375: the guard of the short-query tier.
ShortTierApplies(words) == Len(words) <= ShortQueryWords

\* _needs_search(q): "true", "false", or "IndexError" when words[0] is read
\* on a query without a token.
NeedsSearch(q) ==
    LET ql == QueryLower(q)
        words == Split(ql)
        short == IF ShortTierApplies(words) THEN ShortQueryCheck(words) ELSE "false"
    IN  IF MatchesExplicit(ql) THEN "true"
        ELSE IF short = "raise" THEN "IndexError"
        ELSE IF short = "true" THEN "true"
        ELSE IF FactualTierApplies(words) /\ MatchesFactual(ql) THEN "true"
        ELSE IF MatchesIndicator(ql) THEN "true"
        ELSE "false"

(***************************************************************************)
(* SpecClassify: _needs_search on every query made of at most MaxPieces    *)
(* pieces of QueryPieces, one tier per step.                               *)
(***************************************************************************)
QueryPieces == {"Find ", "their ", "info ", "what's ", "stop ", "ok ", " "}

RECURSIVE PiecesOfLen(_)
PiecesOfLen(n) ==
    IF n = 0 THEN {""} ELSE {s \o p : s \in PiecesOfLen(n - 1), p \in QueryPieces}

Queries == UNION {PiecesOfLen(k) : k \in 0..MaxPieces}

InitClassify ==
    /\ query \in Queries
    /\ classify_pc = "explicit"
    /\ result = "none"
    /\ StreamIdle
    /\ AgentIdle
    /\ StartupIdle

\* Lines 329-346.
ClassifyExplicit ==
    /\ classify_pc = "explicit"
    /\ IF MatchesExplicit(QueryLower(query))
       THEN classify_pc' = "done" /\ result' = "true"
       ELSE classify_pc' = "short" /\ result' = result
    /\ UNCHANGED query
    /\ UNCHANGED <<stream_vars, agent_vars, startup_vars>>

\* Lines 374-383.
ClassifyShort ==
    /\ classify_pc = "short"
    /\ LET words == Split(QueryLower(query))
           short == IF ShortTierApplies(words) THEN ShortQueryCheck(words) ELSE "false"
       IN  IF short = "raise" THEN classify_pc' = "done" /\ result' = "IndexError"
           ELSE IF short = "true" THEN classify_pc' = "done" /\ result' = "true"
           ELSE classify_pc' = "factual" /\ result' = result
    /\ UNCHANGED query
    /\ UNCHANGED <<stream_vars, agent_vars, startup_vars>>

\* Lines 385-390.
ClassifyFactual ==
    /\ classify_pc = "factual"
    /\ IF /\ FactualTierApplies(Split(QueryLower(query)))
          /\ MatchesFactual(QueryLower(query))
       THEN classify_pc' = "done" /\ result' = "true"
       ELSE classify_pc' = "keyword" /\ result' = result
    /\ UNCHANGED query
    /\ UNCHANGED <<stream_vars, agent_vars, startup_vars>>

\* Lines 412-420.
ClassifyKeyword ==
    /\ classify_pc = "keyword"
    /\ classify_pc' = "done"
    /\ result' = IF MatchesIndicator(QueryLower(query)) THEN "true" ELSE "false"
    /\ UNCHANGED query
    /\ UNCHANGED <<stream_vars, agent_vars, startup_vars>>

NextClassify == ClassifyExplicit \/ ClassifyShort \/ ClassifyFactual \/ ClassifyKeyword

SpecClassify == InitClassify /\ [][NextClassify]_vars

(***************************************************************************)
(* GrowthAgent._generate_simple_hypothesis: the parse of the generated     *)
(* text.  A text is a sequence of lexemes <<kind, key, value>>: braces and *)
(* brackets, a member "key": "value" of an object, a scalar, or a word of  *)
(* prose.                                                                  *)
(***************************************************************************)
Lex(kind) == <<kind, "", "">>

Member(key, value) == <<"member", key, value>>

Scalar(type) == <<"scalar", type, "">>

\* json.loads of a lexeme sequence: [ok |-> FALSE] for json.JSONDecodeError,
\* else the Python value, a dict as [type |-> "dict", items |-> key -> value].
RECURSIVE JsonLoads(_)
JsonLoads(t) ==
    LET n == Len(t)
        bad == [ok |-> FALSE, type |-> "", items |-> <<>>]
        val(ty, it) == [ok |-> TRUE, type |-> ty, items |-> it]
    IN  IF n = 1 /\ t[1][1] = "scalar" THEN val(t[1][2], <<>>)
        ELSE IF n >= 2 /\ t[1] = Lex("[") /\ t[n] = Lex("]")
        THEN IF n = 2 \/ JsonLoads(SubSeq(t, 2, n - 1)).ok
             THEN val("list", <<>>) ELSE bad
        ELSE IF n >= 2 /\ t[1] = Lex("{") /\ t[n] = Lex("}")
        THEN IF n = 2 THEN val("dict", <<>>)
             ELSE IF n = 3 /\ t[2][1] = "member"
                  THEN val("dict", [k \in {t[2][2]} |-> t[2][3]])
                  ELSE bad
        ELSE bad

\* re.search(r'(\{.*\})', text, re.DOTALL): from the first "{" to the last "}"
\* after it; <<>> when there is no such pair.
BraceMatch(t) ==
    LET opens == {i \in 1..Len(t) : t[i] = Lex("{")}
        closes == {j \in 1..Len(t) : t[j] = Lex("}")}
    IN  IF opens = {} THEN <<>>
        ELSE LET i == CHOOSE x \in opens : \A y \in opens : x <= y
                 after == {j \in closes : j > i}
             IN  IF after = {} THEN <<>>
                 ELSE SubSeq(t, i, CHOOSE x \in after : \A y \in after : y <= x)

\* Lines 318-322.
FallbackHypothesis ==
    [ok |-> TRUE, type |-> "dict",
     items |-> [k \in {"description"} |-> "a SaaS solution"]]

\* Lines 305-322: the value _generate_simple_hypothesis returns for `text`.
ParseHypothesis(text) ==
    LET parsed == IF BraceMatch(text) # <<>>
                  THEN JsonLoads(BraceMatch(text))
                  ELSE JsonLoads(text)
    IN  IF parsed.ok THEN parsed ELSE FallbackHypothesis

\* hypothesis.get('description', 'a SaaS product') of line 161: "raise" stands
\* for the AttributeError of a value that is no dict.
DescriptionOf(hypothesis) ==
    IF hypothesis.type # "dict" THEN "raise"
    ELSE IF "description" \in DOMAIN hypothesis.items
         THEN hypothesis.items["description"]
         ELSE "a SaaS product"

(***************************************************************************)
(* The inputs and the outcomes of the external capabilities in Spec.       *)
(***************************************************************************)
\* query.prompt: a text without a token; one of fewer than 5 characters that
\* _needs_search classifies as a search; a longer one that it does not.
Prompts == {"", "it", "An AI tool"}

NeedsSearchAlways == [p \in Prompts |-> "true"]

\* _needs_search on the prompts of Spec.
NeedsSearchOf == [p \in Prompts |-> NeedsSearch(p)]

\* What ModelProvider.query returns for the hypothesis prompt.
DescriptionMember == Member("description", "an AI scheduler")

HypothesisTexts == {
    <<Lex("{"), DescriptionMember, Lex("}")>>,
    <<Lex("Sure!"), Lex("{"), DescriptionMember, Lex("}"), Lex("Done.")>>,
    <<Lex("{"), Member("growth_lever", "SEO"), Lex("}")>>,
    <<Lex("{"), Lex("}")>>,
    <<Lex("{"), DescriptionMember>>,
    <<Lex("{"), Lex("}"), Lex("{"), Lex("}")>>,
    <<Lex("Sure!")>>,
    <<>>,
    <<Scalar("int")>>,
    <<Scalar("str")>>,
    <<Scalar("NoneType")>>,
    <<Lex("["), Lex("]")>>,
    <<Lex("["), Scalar("int"), Lex("]")>> }

\* What ModelProvider.query returns for an advice prompt.
AdviceTexts == {"", "Cut churn first. Call five users today."}

\* What SearchProvider.search returns: None, a dict without "results", or a
\* dict whose "results" holds the first n of AllResults.
AllResults == <<"result1", "result2", "result3", "result4", "result5">>

SearchNone == [none |-> TRUE]

SearchNoKey == [answer |-> "text"]

SearchFound(n) == [results |-> SubSeq(AllResults, 1, n)]

SearchReturnValues ==
    {SearchNone, SearchNoKey} \cup {SearchFound(n) : n \in {0, 1, MaxResults}}

(***************************************************************************)
(* The output channel of a request, and its calls, as entries of its log.  *)
(***************************************************************************)
CreateStream == <<"create_text_stream", "FINAL_RESPONSE", "">>

Chunk(c) == <<"emit_chunk", "FINAL_RESPONSE", c>>

TextBlock(name, text) == <<"emit_text_block", name, text>>

Json(name, payload) == <<"emit_json", name, payload>>

StreamComplete == <<"complete", "FINAL_RESPONSE", "">>

HandlerComplete == <<"complete", "response_handler", "">>

SearchCall == <<"search", "", "">>

\* The call to the capability `what` ("search" or "query") raised.
CallRaised(what) == <<"raised", what, "">>

\* self._model_provider.query(p): the prompt as its template and the values
\* the f-string embeds.
QueryCall(template, idea, question, results) ==
    <<"query", template, [startup_idea |-> idea, question |-> question, results |-> results]>>

\* The log entries of _stream_response(msg, stream).
Streamed(msg) ==
    LET out == StreamChunks(msg) IN [i \in 1..Len(out) |-> Chunk(out[i])]

IntroMessage == "Hey! What's your SaaS startup idea in 1-2 sentences?"

ShortAnswerResponse ==
    "Got it. What specific aspect of your SaaS business do you need help with today?"

ThanksResponse(description) ==
    "Thanks! I see you're building " \o description
        \o ". What growth challenge can I help with today?"

Placeholder == "Unspecified SaaS startup"

\* The texts a request of Spec can stream, and what streaming each emits.
Descriptions == {DescriptionOf(ParseHypothesis(t)) : t \in HypothesisTexts} \ {"raise"}

StreamedTexts ==
    {IntroMessage, ShortAnswerResponse} \cup AdviceTexts
        \cup {ThanksResponse(d) : d \in Descriptions}

StreamedOf == [m \in StreamedTexts |-> Streamed(m)]

NewProfileComplete(time) ==
    [profile_complete |-> TRUE, startup_idea |-> "", creation_time |-> time]

(***************************************************************************)
(* GrowthAgent.assist and the coroutines it awaits.  A step runs a request *)
(* from one suspension point (the start of assist, a generation call, a    *)
(* search call) to the next one or to the end of assist; the emits and the *)
(* completions of the response handler do not touch the profile store and  *)
(* are part of the step that awaits them.                                  *)
(***************************************************************************)
\* Lines 81-85.
NewProfile(time) ==
    [profile_complete |-> FALSE, startup_idea |-> "", creation_time |-> time]

IsNewUserAlways(s) == TRUE

\* Line 69.
IsNewUser(s) == user_memory[s] = NoProfile

RememberEverywhere(s, profile) == [t \in Sessions |-> profile]

\* self._user_memory[user_id] = ..., self._user_memory[user_id][field] = ...
\* (lines 81, 148, 152, 158): the record of session s becomes `profile`.
Remember(s, profile) == [user_memory EXCEPT ![s] = profile]

CompletedFlip(profile) == [profile EXCEPT !.profile_complete = ~profile.profile_complete]

CompletedAfresh(profile) == NewProfileComplete(clock)

\* Line 158.
Completed(profile) == [profile EXCEPT !.profile_complete = TRUE]

CompletionReversed == <<HandlerComplete, StreamComplete>>

\* Lines 114-115.
Completion == <<StreamComplete, HandlerComplete>>

\* Line 147.
TooShort(p) == Len(Strip(p)) < MinIdeaLength

\* Line 207.
HasResults(res) ==
    /\ res # SearchNone
    /\ "results" \in DOMAIN res
    /\ Len(res.results) > 0

TopAll(results) == results

\* search_results["results"][:3]
Top(results) == SubSeq(results, 1, IF Len(results) < TopResults THEN Len(results) ELSE TopResults)

\* A request's step ends at `where` with `entries` added to its log.
Goes(r, where, entries) ==
    /\ pc' = [pc EXCEPT ![r] = where]
    /\ log' = [log EXCEPT ![r] = log[r] \o entries]

\* An exception leaves assist: lines 114-115 are not reached.
Raises(r, exception, entries) ==
    /\ Goes(r, "raised", entries)
    /\ error' = [error EXCEPT ![r] = exception]

\* Lines 263-281 of _provide_growth_advice, up to the generation call.
AdviceCall(r) == QueryCall("advice", user_memory[user_id[r]].startup_idea, prompt[r], <<>>)

\* Lines 64-115 up to the first suspension: request r arrives for session s
\* with prompt p.
AssistBegin(r, s, p) ==
    /\ pc[r] = "idle"
    /\ user_id' = [user_id EXCEPT ![r] = s]
    /\ prompt' = [prompt EXCEPT ![r] = p]
    /\ found' = [found EXCEPT ![r] = user_memory[s]]
    /\ UNCHANGED search_results
    /\ IF IsNewUser(s)
       THEN \* lines 77-91
            /\ user_memory' = Remember(s, NewProfile(clock))
            /\ clock' = clock + 1
            /\ Goes(r, "returned", <<CreateStream>> \o StreamedOf[IntroMessage] \o Completion)
            /\ UNCHANGED <<in_try, error>>
       ELSE IF NeedsSearchOf[p] = "IndexError"
       THEN \* line 99: words[0] of line 381 on an empty list
            /\ Raises(r, "IndexError", <<CreateStream>>)
            /\ UNCHANGED <<user_memory, clock, in_try>>
       ELSE IF ~user_memory[s].profile_complete
       THEN \* lines 102-104, 144-155
            IF TooShort(p)
            THEN /\ user_memory' = Remember(s, [user_memory[s] EXCEPT !.startup_idea = Placeholder])
                 /\ Goes(r, "returned",
                         <<CreateStream>> \o StreamedOf[ShortAnswerResponse] \o Completion)
                 /\ UNCHANGED <<clock, in_try, error>>
            ELSE /\ user_memory' = Remember(s, [user_memory[s] EXCEPT !.startup_idea = p])
                 /\ Goes(r, "hypothesis", <<CreateStream, QueryCall("hypothesis", p, "", <<>>)>>)
                 /\ UNCHANGED <<clock, in_try, error>>
       ELSE IF NeedsSearchOf[p] = "true"
       THEN \* lines 105-108, 175-195
            /\ Goes(r, "search",
                    <<CreateStream,
                      TextBlock("SEARCH_NOTIFICATION", "Searching for market data..."),
                      SearchCall>>)
            /\ UNCHANGED <<user_memory, clock, in_try, error>>
       ELSE \* lines 109-112, 263-281
            /\ Goes(r, "advice", <<CreateStream,
                                   QueryCall("advice", user_memory[s].startup_idea, p, <<>>)>>)
            /\ UNCHANGED <<user_memory, clock, in_try, error>>
    /\ UNCHANGED <<stream_vars, classify_vars, startup_vars>>

\* Lines 302-322, 157-164 and 114-115: the hypothesis call returns `text`.
HypothesisReturns(r, text) ==
    /\ pc[r] = "hypothesis"
    /\ user_memory' = Remember(user_id[r], Completed(user_memory[user_id[r]]))
    /\ LET description == DescriptionOf(ParseHypothesis(text))
       IN  IF description = "raise"
           THEN Raises(r, "AttributeError", <<>>)
           ELSE Goes(r, "returned", StreamedOf[ThanksResponse(description)] \o Completion)
                /\ UNCHANGED error
    /\ UNCHANGED <<clock, user_id, prompt, found, search_results, in_try>>
    /\ UNCHANGED <<stream_vars, classify_vars, startup_vars>>

\* Line 302: the hypothesis call raises; nothing catches it.
HypothesisRaises(r) ==
    /\ pc[r] = "hypothesis"
    /\ Raises(r, "GenerationError", <<CallRaised("query")>>)
    /\ UNCHANGED <<user_memory, clock, user_id, prompt, found, search_results, in_try>>
    /\ UNCHANGED <<stream_vars, classify_vars, startup_vars>>

\* Lines 195-246: the search call returns `res`.
SearchReturns(r, res) ==
    /\ pc[r] = "search"
    /\ search_results' = [search_results EXCEPT ![r] = res]
    /\ IF HasResults(res)
       THEN /\ Goes(r, "enhanced",
                    <<Json("SEARCH_RESULTS", Top(res.results)),
                      QueryCall("enhanced", user_memory[user_id[r]].startup_idea,
                                prompt[r], Top(res.results))>>)
            /\ UNCHANGED in_try
       ELSE /\ Goes(r, "advice",
                    <<TextBlock("SEARCH_ERROR", "No search results found. Here's my best advice:"),
                      AdviceCall(r)>>)
            /\ in_try' = [in_try EXCEPT ![r] = TRUE]
    /\ UNCHANGED <<user_memory, clock, user_id, prompt, found, error>>
    /\ UNCHANGED <<stream_vars, classify_vars, startup_vars>>

\* Lines 247-253: an exception raised inside the try block is caught.
Caught(r, what) ==
    /\ Goes(r, "advice",
            <<CallRaised(what),
              TextBlock("SEARCH_ERROR", "Search couldn't be completed. Here's my best advice:"),
              AdviceCall(r)>>)
    /\ in_try' = [in_try EXCEPT ![r] = FALSE]
    /\ UNCHANGED <<user_memory, clock, user_id, prompt, found, search_results, error>>

\* Line 195: the search call raises.
SearchRaises(r) ==
    /\ pc[r] = "search"
    /\ Caught(r, "search")
    /\ UNCHANGED <<stream_vars, classify_vars, startup_vars>>

\* Lines 235-239 and 114-115: the generation call of the search-augmented
\* answer returns.
EnhancedReturns(r, text) ==
    /\ pc[r] = "enhanced"
    /\ Goes(r, "returned", StreamedOf[text] \o Completion)
    /\ UNCHANGED <<user_memory, clock, user_id, prompt, found, search_results, in_try, error>>
    /\ UNCHANGED <<stream_vars, classify_vars, startup_vars>>

\* Line 235: it raises, inside the try block.
EnhancedRaises(r) ==
    /\ pc[r] = "enhanced"
    /\ Caught(r, "query")
    /\ UNCHANGED <<stream_vars, classify_vars, startup_vars>>

\* Lines 281-284 and 114-115: the generation call of _provide_growth_advice
\* returns.
AdviceReturns(r, text) ==
    /\ pc[r] = "advice"
    /\ Goes(r, "returned", StreamedOf[text] \o Completion)
    /\ UNCHANGED <<user_memory, clock, user_id, prompt, found, search_results, in_try, error>>
    /\ UNCHANGED <<stream_vars, classify_vars, startup_vars>>

\* Line 281: it raises; the except clause of line 247 catches it when
\* _provide_growth_advice was called at line 246, nothing does otherwise.
AdviceRaises(r) ==
    /\ pc[r] = "advice"
    /\ IF in_try[r]
       THEN Caught(r, "query")
       ELSE /\ Raises(r, "GenerationError", <<CallRaised("query")>>)
            /\ UNCHANGED <<user_memory, clock, user_id, prompt, found, search_results, in_try>>
    /\ UNCHANGED <<stream_vars, classify_vars, startup_vars>>

\* assist is over (it returned or raised) and the request goes away.
Return(r) ==
    /\ pc[r] \in {"returned", "raised"}
    /\ pc' = [pc EXCEPT ![r] = "idle"]
    /\ user_id' = [user_id EXCEPT ![r] = "none"]
    /\ prompt' = [prompt EXCEPT ![r] = ""]
    /\ found' = [found EXCEPT ![r] = Unset]
    /\ search_results' = [search_results EXCEPT ![r] = Unset]
    /\ in_try' = [in_try EXCEPT ![r] = FALSE]
    /\ log' = [log EXCEPT ![r] = <<>>]
    /\ error' = [error EXCEPT ![r] = "none"]
    /\ UNCHANGED <<user_memory, clock>>
    /\ UNCHANGED <<stream_vars, classify_vars, startup_vars>>

Init ==
    /\ AgentIdle
    /\ StreamIdle
    /\ ClassifyIdle
    /\ StartupIdle

Next ==
    \/ \E r \in Requests, s \in Sessions, p \in Prompts : AssistBegin(r, s, p)
    \/ \E r \in Requests, text \in HypothesisTexts : HypothesisReturns(r, text)
    \/ \E r \in Requests : HypothesisRaises(r)
    \/ \E r \in Requests, res \in SearchReturnValues : SearchReturns(r, res)
    \/ \E r \in Requests : SearchRaises(r)
    \/ \E r \in Requests, text \in AdviceTexts : EnhancedReturns(r, text)
    \/ \E r \in Requests : EnhancedRaises(r)
    \/ \E r \in Requests, text \in AdviceTexts : AdviceReturns(r, text)
    \/ \E r \in Requests : AdviceRaises(r)
    \/ \E r \in Requests : Return(r)

Spec == Init /\ [][Next]_vars

(***************************************************************************)
(* Reading a request's log.                                                *)
(***************************************************************************)
\* The places of the entries of kind `kind` in the log l, and those among
\* them that carry the name `name`.
OfKind(l, kind) == {i \in 1..Len(l) : l[i][1] = kind}

Named(l, kind, name) == {i \in OfKind(l, kind) : l[i][2] = name}

Times(l, kind, name) == Cardinality(Named(l, kind, name))

\* The text of the FINAL_RESPONSE chunks of l, concatenated in order.
RECURSIVE EmittedText(_)
EmittedText(l) ==
    IF l = <<>> THEN ""
    ELSE (IF Head(l)[1] = "emit_chunk" THEN Head(l)[3] ELSE "") \o EmittedText(Tail(l))

\* assist is over for request r: it returned or an exception left it.
Over(r) == pc[r] \in {"returned", "raised"}

\* The stream and the response handler were each completed exactly once.
CompletedOnce(l) ==
    /\ Times(l, "complete", "FINAL_RESPONSE") = 1
    /\ Times(l, "complete", "response_handler") = 1

\* Request r found a record that was not complete: an onboarding answer.
FoundIncomplete(r) ==
    /\ "profile_complete" \in DOMAIN found[r]
    /\ ~found[r].profile_complete

\* Request r found a complete record.
FoundComplete(r) ==
    /\ "profile_complete" \in DOMAIN found[r]
    /\ found[r].profile_complete

(***************************************************************************)
(* C1.  In every request in which no generation call raises, whichever     *)
(* path runs, the FINAL_RESPONSE stream is completed exactly once and the  *)
(* response handler is completed exactly once by the time assist is over.  *)
(***************************************************************************)
C1_CompletedOnceWhenGenerationWorks ==
    \A r \in Requests :
        (Over(r) /\ Times(log[r], "raised", "query") = 0) => CompletedOnce(log[r])

(***************************************************************************)
(* C2.  Also in a request in which a generation call raises, the stream is *)
(* completed and the completion of the request is signalled exactly once.  *)
(***************************************************************************)
C2_CompletedOnceWhenGenerationRaises ==
    \A r \in Requests :
        (Over(r) /\ Times(log[r], "raised", "query") > 0) => CompletedOnce(log[r])

(***************************************************************************)
(* C3.  A request for a session identifier without a record creates the    *)
(* record with profile_complete = FALSE, and whatever its prompt is, all   *)
(* it ever emits is the fixed greeting, and it calls neither the           *)
(* generation nor the search capability.                                   *)
(***************************************************************************)
C3_FirstContactGreetsOnly ==
    [][\A r \in Requests :
          /\ (pc[r] = "idle" /\ pc'[r] # "idle" /\ user_memory[user_id'[r]] = NoProfile)
                => /\ user_memory'[user_id'[r]] # NoProfile
                   /\ user_memory'[user_id'[r]].profile_complete = FALSE
                   /\ found'[r] = NoProfile
          /\ (found'[r] = NoProfile)
                => /\ EmittedText(log'[r]) = IntroMessage
                   /\ OfKind(log'[r], "query") = {}
                   /\ OfKind(log'[r], "search") = {}
                   /\ OfKind(log'[r], "emit_text_block") = {}
                   /\ OfKind(log'[r], "emit_json") = {}
                   /\ error'[r] = "none"]_vars

\* A first contact with the empty prompt has returned.
C3_Witness ==
    \E r \in Requests :
        /\ pc[r] = "returned"
        /\ found[r] = NoProfile
        /\ prompt[r] = ""
        /\ EmittedText(log[r]) = IntroMessage

(***************************************************************************)
(* C4.  Every prompt handled for a session whose record exists and is not  *)
(* complete advances the onboarding: when that request has returned, the   *)
(* record has profile_complete = TRUE.                                     *)
(***************************************************************************)
C4_OnboardingAnswerCompletesProfile ==
    \A r \in Requests :
        (pc[r] = "returned" /\ FoundIncomplete(r))
            => user_memory[user_id[r]].profile_complete

(***************************************************************************)
(* C5.  profile_complete is monotone and a record is never removed: no     *)
(* step of any request, for any session, takes a record away or turns its  *)
(* profile_complete from TRUE to FALSE.                                    *)
(***************************************************************************)
C5_ProfileCompleteMonotone ==
    [][\A s \in Sessions :
          user_memory[s] # NoProfile
              => /\ user_memory'[s] # NoProfile
                 /\ user_memory[s].profile_complete => user_memory'[s].profile_complete]_vars

\* A later request for a session whose record is complete has returned,
\* while a request for another session is under way.
C5_Witness ==
    \E r, q \in Requests :
        /\ pc[r] = "returned"
        /\ FoundComplete(r)
        /\ user_memory[user_id[r]].profile_complete
        /\ pc[q] \notin {"idle", "returned", "raised"}
        /\ user_id[q] # user_id[r]

(***************************************************************************)
(* C6.  Streamer round trip: the chunks _stream_response emits,            *)
(* concatenated in the order of emission, are the message it was given.    *)
(***************************************************************************)
C6_StreamRoundTrip == stream_pc = "done" => Join(emitted) = message

(***************************************************************************)
(* C7.  Streamer chunk-size bound: every chunk _stream_response emits,     *)
(* other than the last one, holds at least 3 words, unless its final       *)
(* token ends with one of . ! ? : ; or a newline.                          *)
(***************************************************************************)
C7_ChunkSizeBound ==
    stream_pc = "done" =>
        \A i \in 1..(Len(emitted) - 1) :
            \/ Len(Split(emitted[i])) >= 3
            \/ LET tokens == Findall(emitted[i])
               IN  tokens # <<>> /\ EndsWithTerminator(tokens[Len(tokens)])

\* A message was streamed in two chunks or more, and its first chunk was
\* flushed by the word count alone: three words, no terminator at its end.
C7_Witness ==
    /\ stream_pc = "done"
    /\ Len(emitted) >= 2
    /\ Len(Split(emitted[1])) = MinChunkWords
    /\ ~EndsWithTerminator(emitted[1])

(***************************************************************************)
(* C8.  Search fallback: in a request on the search path whose search call *)
(* returned no result, a result without items, or raised, a SEARCH_ERROR   *)
(* notice is emitted and after it the final response comes from the        *)
(* standard-advice path: the standard prompt, one generation call, its     *)
(* text streamed; and no SEARCH_RESULTS block is emitted.                  *)
(***************************************************************************)
SearchFailed(r) ==
    \/ Times(log[r], "raised", "search") > 0
    \/ search_results[r] # Unset /\ ~HasResults(search_results[r])

C8_SearchFallback ==
    \A r \in Requests :
        (pc[r] = "returned" /\ SearchFailed(r))
            => /\ Named(log[r], "emit_text_block", "SEARCH_ERROR") # {}
               /\ \A i \in Named(log[r], "emit_text_block", "SEARCH_ERROR") :
                      \A j \in OfKind(log[r], "emit_chunk") : i < j
               /\ Named(log[r], "emit_json", "SEARCH_RESULTS") = {}
               /\ Cardinality(OfKind(log[r], "query")) = 1
               /\ Times(log[r], "query", "advice") = 1

(***************************************************************************)
(* C9.  Hypothesis generation never propagates a failure: whatever text    *)
(* the generation capability returns for the hypothesis prompt, the        *)
(* closing onboarding message is built and streamed and no exception       *)
(* leaves the request.                                                     *)
(***************************************************************************)
C9_HypothesisNeverPropagates ==
    \A r \in Requests :
        (/\ Over(r)
         /\ Times(log[r], "query", "hypothesis") = 1
         /\ Times(log[r], "raised", "query") = 0)
            => /\ pc[r] = "returned"
               /\ error[r] = "none"
               /\ \E d \in {"an AI scheduler", "a SaaS product", "a SaaS solution"} :
                      EmittedText(log[r]) = ThanksResponse(d)

(***************************************************************************)
(* C10.  _needs_search follows the four tiers in order: true on an         *)
(* explicit-request pattern; otherwise, for a query of at most 3 tokens,   *)
(* true if its first token is a continuation word or any token is an       *)
(* information word; otherwise, only for a query of more than 3 tokens,    *)
(* true on a factual-question pattern; otherwise true if a keyword of the  *)
(* fallback vocabulary occurs in it; otherwise false.                      *)
(***************************************************************************)
TierValue(q) ==
    LET ql == Strip(Lower(q))
        tokens == Split(ql)
    IN  \/ MatchesExplicit(ql)
        \/ /\ Len(tokens) <= 3
           /\ \/ Len(tokens) > 0 /\ tokens[1] \in continuation_words
              \/ \E i \in 1..Len(tokens) : tokens[i] \in information_words
        \/ Len(tokens) > 3 /\ MatchesFactual(ql)
        \/ MatchesIndicator(ql)

C10_FourTierPrecedence ==
    classify_pc = "done" => result = (IF TierValue(query) THEN "true" ELSE "false")

\* The same on the queries that hold at least one token.
FourTierPrecedenceOnTokens ==
    (classify_pc = "done" /\ Split(query) # <<>>)
        => result = (IF TierValue(query) THEN "true" ELSE "false")

(***************************************************************************)
(* C11.  _needs_search is total: on every query text, the empty one and    *)
(* those of whitespace only included, it returns True or False and raises  *)
(* nothing.                                                                *)
(***************************************************************************)
C11_NeedsSearchTotal == classify_pc = "done" => result \in {"true", "false"}

(***************************************************************************)
(* C12.  A record is created at most once per session identifier: the      *)
(* number of records ever created is the number of sessions that have one; *)
(* the step that gives a session its record is the start of exactly one    *)
(* request, the one that found none, and that request is the one that      *)
(* emits the greeting; a request that starts for a session with a record,  *)
(* while an earlier one for it is still under way or not, neither creates  *)
(* nor re-initialises it (its creation_time stays) nor greets.             *)
(***************************************************************************)
Starters(s) == {r \in Requests : pc[r] = "idle" /\ pc'[r] # "idle" /\ user_id'[r] = s}

CreatedOnceStep(s) ==
    LET creators == {r \in Starters(s) : found'[r] = NoProfile}
        greeters == {r \in Starters(s) : EmittedText(log'[r]) = IntroMessage}
    IN  IF user_memory[s] = NoProfile
        THEN user_memory'[s] # NoProfile
                => /\ Cardinality(creators) = 1
                   /\ greeters = creators
                   /\ user_memory'[s].creation_time = clock
        ELSE /\ user_memory'[s] # NoProfile
             /\ user_memory'[s].creation_time = user_memory[s].creation_time
             /\ creators = {}
             /\ greeters = {}

C12_ProfileCreatedOnce ==
    /\ [](clock = Cardinality({s \in Sessions : user_memory[s] # NoProfile}))
    /\ [][\A s \in Sessions : CreatedOnceStep(s)]_vars

\* Two requests for the same session are under way together: the first
\* contact, which created the record and greeted, and one that found it.
C12_Witness ==
    \E r, q \in Requests :
        /\ r # q
        /\ user_id[r] = user_id[q]
        /\ pc[r] = "returned" /\ found[r] = NoProfile
        /\ EmittedText(log[r]) = IntroMessage
        /\ pc[q] \in {"hypothesis", "returned"} /\ FoundIncomplete(q)
        /\ clock = 1

(***************************************************************************)
(* C13.  Session isolation: a step of a request for session A, whatever    *)
(* other requests are under way, leaves the record (or the absence of a    *)
(* record) of every other session as it was.                               *)
(***************************************************************************)
\* The step is one of request r: its position or its log changes.
Acting(r) == pc'[r] # pc[r] \/ log'[r] # log[r]

\* The session the step of r works for.
SessionOf(r) == IF pc[r] = "idle" THEN user_id'[r] ELSE user_id[r]

C13_SessionIsolation ==
    [][\A r \in Requests :
          Acting(r) => \A s \in Sessions \ {SessionOf(r)} : user_memory'[s] = user_memory[s]]_vars

\* While the onboarding answer of one session waits for its hypothesis, the
\* onboarding of another session was completed; the first record holds the
\* answer and is still incomplete.
C13_Witness ==
    \E r, q \in Requests :
        /\ user_id[r] # user_id[q]
        /\ pc[r] = "hypothesis"
        /\ user_memory[user_id[r]] =
               [profile_complete |-> FALSE, startup_idea |-> prompt[r],
                creation_time |-> found[r].creation_time]
        /\ pc[q] = "returned" /\ FoundIncomplete(q)
        /\ Times(log[q], "query", "hypothesis") = 1
        /\ user_memory[user_id[q]].profile_complete

(***************************************************************************)
(* SpecHung: the requests of Spec, where the external calls of request 2   *)
(* return (or raise) in the end, as calls awaited on the event loop do     *)
(* once their reply is there, while those of request 1 may never return.   *)
(***************************************************************************)
\* Request r is suspended at an external call (lines 302, 195, 235, 281).
Waiting(r) == pc[r] \in {"hypothesis", "search", "enhanced", "advice"}

\* The external calls of request r return.
CallsReturn(r) ==
    /\ WF_vars(\E text \in HypothesisTexts : HypothesisReturns(r, text))
    /\ WF_vars(\E res \in SearchReturnValues : SearchReturns(r, res))
    /\ WF_vars(\E text \in AdviceTexts : EnhancedReturns(r, text))
    /\ WF_vars(\E text \in AdviceTexts : AdviceReturns(r, text))

SpecHung == Init /\ [][Next]_vars /\ CallsReturn(2)

(***************************************************************************)
(* C14.  A hung external call blocks only its own session: while request 1 *)
(* waits for a call made for session A, a request for another session B,   *)
(* none of whose own external calls raises, is processed and in the end    *)
(* completed: assist returns, past the completion of the stream and of the *)
(* handler.                                                                *)
(***************************************************************************)
OtherSessionUnderWay ==
    /\ Waiting(1)
    /\ pc[2] # "idle"
    /\ user_id[2] # user_id[1]

C14_HungCallBlocksOnlyItsSession ==
    OtherSessionUnderWay ~> (pc[2] = "returned" \/ OfKind(log[2], "raised") # {})

\* The other request is never held up: assist comes to its end, by
\* returning or by an exception.
HungCallHoldsUpNoOtherRequest == OtherSessionUnderWay ~> Over(2)

(***************************************************************************)
(* C15.  Order on the search-augmented path.  A SEARCH_RESULTS block is    *)
(* emitted at most once in a request, after the SEARCH_NOTIFICATION and    *)
(* the search call, and never holds more than 3 records.  In a request     *)
(* whose search call returned n > 0 results and whose generation call      *)
(* returned, the output is, in this order: the SEARCH_NOTIFICATION, the    *)
(* search call, one SEARCH_RESULTS block with the first min(3, n) results  *)
(* in their order, the generation call with the search-augmented prompt,   *)
(* the FINAL_RESPONSE chunks of its answer, the two completions.           *)
(***************************************************************************)
SearchNotification == TextBlock("SEARCH_NOTIFICATION", "Searching for market data...")

FirstThree(results) ==
    [i \in 1..(IF Len(results) < 3 THEN Len(results) ELSE 3) |-> results[i]]

ResultsBlockInOrder(l) ==
    /\ Cardinality(OfKind(l, "emit_json")) <= 1
    /\ \A j \in OfKind(l, "emit_json") :
          /\ l[j][2] = "SEARCH_RESULTS"
          /\ Len(l[j][3]) <= 3
          /\ \E i, k \in 1..j : i < k /\ k < j /\ l[i] = SearchNotification /\ l[k] = SearchCall

C15_SearchAugmentedOrder ==
    \A r \in Requests :
        /\ ResultsBlockInOrder(log[r])
        /\ (/\ pc[r] = "returned"
            /\ search_results[r] # Unset
            /\ HasResults(search_results[r])
            /\ OfKind(log[r], "raised") = {})
              => \E text \in AdviceTexts :
                    /\ Len(log[r]) >= 5
                    /\ log[r][5][1] = "query" /\ log[r][5][2] = "enhanced"
                    /\ log[r][5][3].results = FirstThree(search_results[r].results)
                    /\ log[r] = <<CreateStream, SearchNotification, SearchCall,
                                  Json("SEARCH_RESULTS", FirstThree(search_results[r].results)),
                                  log[r][5]>>
                                    \o StreamedOf[text] \o Completion

\* A search returned 5 results; the block held the first 3 and the
\* search-augmented answer was streamed after it.
C15_Witness ==
    \E r \in Requests :
        /\ pc[r] = "returned"
        /\ search_results[r] = SearchFound(MaxResults)
        /\ OfKind(log[r], "raised") = {}
        /\ \E j \in Named(log[r], "emit_json", "SEARCH_RESULTS") :
              /\ log[r][j][3] = <<"result1", "result2", "result3">>
              /\ \E c \in OfKind(log[r], "emit_chunk") : j < c

(***************************************************************************)
(* C16.  The generation capability is never retried: whatever the search   *)
(* call and the generation call do (return, return nothing, raise), one    *)
(* request invokes the generation capability at most once.                 *)
(***************************************************************************)
C16_GenerationNeverRetried ==
    \A r \in Requests : Cardinality(OfKind(log[r], "query")) <= 1

(***************************************************************************)
(* C17.  An empty text from the generation capability is a valid answer:   *)
(* the step in which the generation call of the standard-advice, the       *)
(* search-augmented or the search-fallback path returns "" emits no        *)
(* FINAL_RESPONSE chunk, raises nothing, and completes the stream and the  *)
(* handler; the request has then returned with no chunk at all.            *)
(***************************************************************************)
EmptyAnswerStep(r) ==
    /\ pc'[r] = "returned"
    /\ error'[r] = "none"
    /\ log'[r] = log[r] \o Completion
    /\ OfKind(log'[r], "emit_chunk") = {}
    /\ CompletedOnce(log'[r])

C17_EmptyAnswerIsValid ==
    [][\A r \in Requests :
          (AdviceReturns(r, "") \/ EnhancedReturns(r, "")) => EmptyAnswerStep(r)]_vars

\* The generation call of the search-fallback path returned the empty text:
\* the request has returned, completed, without a chunk.
C17_Witness ==
    \E r \in Requests :
        /\ pc[r] = "returned"
        /\ Named(log[r], "emit_text_block", "SEARCH_ERROR") # {}
        /\ Times(log[r], "query", "advice") = 1
        /\ OfKind(log[r], "emit_chunk") = {}
        /\ CompletedOnce(log[r])

(***************************************************************************)
(* SpecStartup: the start of the process.  startup.py runs main: the       *)
(* verification checks, then GrowthAgent.__init__, then the server;        *)
(* growth_agent.py run as a script constructs the agent and runs the       *)
(* server at once.  env is the environment as os.getenv sees it after      *)
(* load_dotenv().                                                          *)
(***************************************************************************)
EnvNames == {"MODEL_API_KEY", "TAVILY_API_KEY"}

\* os.getenv(name): None, the empty string, or a key.
EnvValues == {"None", "", "key"}

IsSetAlways(value) == TRUE

\* `not value` is false (startup.py lines 27, 34; growth_agent.py lines 35, 41).
IsSet(value) == value \notin {"None", ""}

\* The awaited call raised.
Raised == [raised |-> TRUE]

\* What search_provider.search("test connection") gives (startup.py line 49).
TavilyTestOutcomes == SearchReturnValues \cup {Raised}

\* What model_provider.query("Hello, are you working?") gives (line 71).
ModelTestOutcomes == {[text |-> ""], [text |-> "Yes."], Raised}

\* startup.py lines 51-60.
TavilyTestPasses(res) == res # Raised /\ HasResults(res)

ModelTestPassesAlways(res) == TRUE

\* startup.py lines 73-82.
ModelTestPasses(res) == res # Raised /\ Len(res.text) > 0

InitStartup ==
    /\ env \in [EnvNames -> EnvValues]
    /\ entry \in {"startup.py", "growth_agent.py"}
    /\ startup_pc = "begin"
    /\ test_results = Unset
    /\ response = Unset
    /\ agent = NoAgent
    /\ server = "none"
    /\ served = 0
    /\ StreamIdle
    /\ ClassifyIdle
    /\ AgentIdle

\* startup.py lines 108, 87-89, 21-39 and 109: main runs verification_checks,
\* which begins with verify_api_keys; a missing key ends in sys.exit(1).
VerifyApiKeys ==
    /\ startup_pc = "begin"
    /\ entry = "startup.py"
    /\ startup_pc' = IF IsSet(env["MODEL_API_KEY"]) /\ IsSet(env["TAVILY_API_KEY"])
                     THEN "verify_tavily_connection"
                     ELSE "exit"
    /\ UNCHANGED <<env, entry, test_results, response, agent, server, served>>
    /\ UNCHANGED <<stream_vars, classify_vars, agent_vars>>

\* startup.py lines 92-94 and 41-60: the Tavily test; whatever it gives,
\* verification_checks goes on.
VerifyTavilyConnection(res) ==
    /\ startup_pc = "verify_tavily_connection"
    /\ test_results' = res
    /\ startup_pc' = "verify_model_connection"
    /\ UNCHANGED <<env, entry, response, agent, server, served>>
    /\ UNCHANGED <<stream_vars, classify_vars, agent_vars>>

\* startup.py lines 97-101, 62-82 and 108-112: the model test; a failed one
\* ends in sys.exit(1).
VerifyModelConnection(res) ==
    /\ startup_pc = "verify_model_connection"
    /\ response' = res
    /\ startup_pc' = IF ModelTestPasses(res) THEN "__init__" ELSE "exit"
    /\ UNCHANGED <<env, entry, test_results, agent, server, served>>
    /\ UNCHANGED <<stream_vars, classify_vars, agent_vars>>

\* growth_agent.py lines 436-438: the module run as a script.
RunAsScript ==
    /\ startup_pc = "begin"
    /\ entry = "growth_agent.py"
    /\ startup_pc' = "__init__"
    /\ UNCHANGED <<env, entry, test_results, response, agent, server, served>>
    /\ UNCHANGED <<stream_vars, classify_vars, agent_vars>>

\* GrowthAgent.__init__, lines 27-38.
InitModelProvider ==
    /\ startup_pc = "__init__"
    /\ IF IsSet(env["MODEL_API_KEY"])
       THEN /\ agent' = [agent EXCEPT !.model_provider = TRUE]
            /\ startup_pc' = "search_api_key"
       ELSE /\ startup_pc' = "ValueError"
            /\ UNCHANGED agent
    /\ UNCHANGED <<env, entry, test_results, response, server, served>>
    /\ UNCHANGED <<stream_vars, classify_vars, agent_vars>>

\* GrowthAgent.__init__, lines 40-52.
InitSearchProvider ==
    /\ startup_pc = "search_api_key"
    /\ IF IsSet(env["TAVILY_API_KEY"])
       THEN /\ agent' = [agent EXCEPT !.search_provider = TRUE, !.user_memory = TRUE]
            /\ startup_pc' = "constructed"
       ELSE /\ startup_pc' = "ValueError"
            /\ UNCHANGED agent
    /\ UNCHANGED <<env, entry, test_results, response, server, served>>
    /\ UNCHANGED <<stream_vars, classify_vars, agent_vars>>

\* startup.py lines 119-123, growth_agent.py lines 440-442.
RunServer ==
    /\ startup_pc = "constructed"
    /\ server' = "running"
    /\ startup_pc' = "serving"
    /\ UNCHANGED <<env, entry, test_results, response, agent, served>>
    /\ UNCHANGED <<stream_vars, classify_vars, agent_vars>>

\* The running server hands a request to agent.assist.
HandleRequest ==
    /\ startup_pc = "serving"
    /\ served < MaxServed
    /\ served' = served + 1
    /\ UNCHANGED <<env, entry, startup_pc, test_results, response, agent, server>>
    /\ UNCHANGED <<stream_vars, classify_vars, agent_vars>>

NextStartup ==
    \/ VerifyApiKeys
    \/ \E res \in TavilyTestOutcomes : VerifyTavilyConnection(res)
    \/ \E res \in ModelTestOutcomes : VerifyModelConnection(res)
    \/ RunAsScript
    \/ InitModelProvider
    \/ InitSearchProvider
    \/ RunServer
    \/ HandleRequest

SpecStartup == InitStartup /\ [][NextStartup]_vars

(***************************************************************************)
(* C18.  Missing credentials are fatal at start: when MODEL_API_KEY or     *)
(* TAVILY_API_KEY is absent (or empty), GrowthAgent.__init__ fails before  *)
(* any provider or the profile store exists, main of startup.py exits      *)
(* before it constructs anything, the server never runs and no request is  *)
(* ever processed.                                                         *)
(***************************************************************************)
KeyAbsent(name) == env[name] \in {"None", ""}

MissingKey == KeyAbsent("MODEL_API_KEY") \/ KeyAbsent("TAVILY_API_KEY")

NeverServes ==
    /\ startup_pc \notin {"constructed", "serving"}
    /\ server = "none"
    /\ served = 0
    /\ entry = "startup.py" => (startup_pc \in {"begin", "exit"} /\ agent = NoAgent)

C18_MissingCredentialsFatal == MissingKey => (agent = NoAgent /\ NeverServes)

(***************************************************************************)
(* C18, amended.  When a key is absent (or empty), GrowthAgent.__init__    *)
(* raises ValueError at the first absent key: before the search provider   *)
(* and the profile store exist, and, when MODEL_API_KEY is the absent one, *)
(* before the model provider exists; when only TAVILY_API_KEY is absent    *)
(* the model provider has been constructed by then.  main of startup.py    *)
(* exits before it constructs anything; the server never runs and no       *)
(* request is ever processed.                                              *)
(***************************************************************************)
FailsAtFirstAbsentKey ==
    /\ (startup_pc = "__init__" /\ startup_pc' # startup_pc)
          => startup_pc' = (IF KeyAbsent("MODEL_API_KEY") THEN "ValueError" ELSE "search_api_key")
    /\ (startup_pc = "search_api_key" /\ startup_pc' # startup_pc)
          => (KeyAbsent("TAVILY_API_KEY") /\ startup_pc' = "ValueError")

C18_MissingCredentialsFatalAmended ==
    /\ [](MissingKey =>
            /\ ~agent.search_provider
            /\ ~agent.user_memory
            /\ KeyAbsent("MODEL_API_KEY") => ~agent.model_provider
            /\ NeverServes)
    /\ [][MissingKey => FailsAtFirstAbsentKey]_vars

\* Only TAVILY_API_KEY is absent: __init__ has raised ValueError, after it
\* constructed the model provider.
C18_Witness ==
    /\ ~KeyAbsent("MODEL_API_KEY")
    /\ KeyAbsent("TAVILY_API_KEY")
    /\ startup_pc = "ValueError"
    /\ agent = [NoAgent EXCEPT !.model_provider = TRUE]
    /\ server = "none"
    /\ served = 0

(***************************************************************************)
(* C19.  Routing: a request invokes the search capability at most once,    *)
(* and only if the record of its session was complete when the request     *)
(* started and _needs_search is True on its prompt; the side-messages      *)
(* SEARCH_NOTIFICATION, SEARCH_RESULTS and SEARCH_ERROR are emitted only   *)
(* in such a request; a first contact and an onboarding answer never       *)
(* invoke search and emit none of them.                                    *)
(***************************************************************************)
\* The prompts of Spec on which _needs_search returns True.
SearchPrompts == {p \in Prompts : NeedsSearch(p) = "true"}

OnSearchPath(r) == FoundComplete(r) /\ prompt[r] \in SearchPrompts

SideMessages(l) == OfKind(l, "emit_text_block") \cup OfKind(l, "emit_json")

C19_SearchRouting ==
    \A r \in Requests :
        /\ Cardinality(OfKind(log[r], "search")) <= 1
        /\ OfKind(log[r], "search") # {} => OnSearchPath(r)
        /\ SideMessages(log[r]) # {} => OnSearchPath(r)
        /\ (found[r] = NoProfile \/ FoundIncomplete(r))
              => (OfKind(log[r], "search") = {} /\ SideMessages(log[r]) = {})

\* A request on the search path has returned after its one search call, and
\* an onboarding answer whose text _needs_search takes for a search request
\* has returned without one.
C19_Witness ==
    \E r, q \in Requests :
        /\ pc[r] = "returned" /\ OnSearchPath(r)
        /\ Cardinality(OfKind(log[r], "search")) = 1
        /\ pc[q] = "returned" /\ FoundIncomplete(q)
        /\ prompt[q] \in SearchPrompts
        /\ OfKind(log[q], "search") = {}

(***************************************************************************)
(* C20.  Onboarding answer storage: the request that starts with an        *)
(* onboarding answer (the record of its session exists and is incomplete)  *)
(* stores, when the trimmed answer is shorter than 5 characters, the       *)
(* placeholder "Unspecified SaaS startup" as startup_idea and makes no     *)
(* generation call; otherwise it stores the answer verbatim and makes      *)
(* exactly one generation call, the hypothesis call.                       *)
(***************************************************************************)
\* The step is the start of request r with an onboarding answer.
OnboardingStart(r) ==
    /\ pc[r] = "idle" /\ pc'[r] # "idle"
    /\ "profile_complete" \in DOMAIN found'[r]
    /\ ~found'[r].profile_complete

AnswerStored(r) ==
    IF Len(Strip(prompt'[r])) < 5
    THEN /\ user_memory'[user_id'[r]].startup_idea = "Unspecified SaaS startup"
         /\ OfKind(log'[r], "query") = {}
         /\ ~Waiting(r)'
    ELSE /\ user_memory'[user_id'[r]].startup_idea = prompt'[r]
         /\ Cardinality(OfKind(log'[r], "query")) = 1
         /\ Times(log'[r], "query", "hypothesis") = 1

GenerationCallsOfAnswer(r) ==
    Cardinality(OfKind(log[r], "query")) = (IF Len(Strip(prompt[r])) < 5 THEN 0 ELSE 1)

C20_OnboardingAnswerStorage ==
    /\ [][\A r \in Requests : OnboardingStart(r) => AnswerStored(r)]_vars
    /\ [](\A r \in Requests : FoundIncomplete(r) => GenerationCallsOfAnswer(r))

\* The same on the answers that hold at least one token.
OnboardingAnswerStorageOnTokens ==
    /\ [][\A r \in Requests :
            (OnboardingStart(r) /\ Split(prompt'[r]) # <<>>) => AnswerStored(r)]_vars
    /\ [](\A r \in Requests : FoundIncomplete(r) => GenerationCallsOfAnswer(r))

(***************************************************************************)
(* C21.  Startup verification: under startup.py, once verification_checks  *)
(* is over it has succeeded, and main has gone on to construct the agent   *)
(* and run the server without a failure, exactly when both API keys are    *)
(* set and the model connection test returned a non-empty text; what the   *)
(* Tavily connection test gave (results, none, an exception) plays no      *)
(* part, and a model test that raised or returned "" ends in sys.exit(1).  *)
(***************************************************************************)
VerificationOver ==
    startup_pc \notin {"begin", "verify_tavily_connection", "verify_model_connection"}

Started == startup_pc \in {"__init__", "search_api_key", "constructed", "serving"}

ModelAnswered == "text" \in DOMAIN response /\ response.text # ""

C21_StartupVerification ==
    (entry = "startup.py" /\ VerificationOver)
        => /\ Started <=> (~MissingKey /\ ModelAnswered)
           /\ ~Started => (startup_pc = "exit" /\ agent = NoAgent /\ server = "none")
           /\ server = "running" <=> startup_pc = "serving"

\* The Tavily test raised, the model test answered: the server runs.
C21_Witness ==
    /\ entry = "startup.py"
    /\ test_results = Raised
    /\ ModelAnswered
    /\ startup_pc = "serving"
    /\ server = "running"
    /\ served > 0

(***************************************************************************)
(* C22.  Within one request at most one of the side-messages               *)
(* SEARCH_RESULTS and SEARCH_ERROR is emitted, and SEARCH_ERROR at most    *)
(* once, also when the generation call that follows a successful search    *)
(* raises.                                                                 *)
(***************************************************************************)
C22_OneSearchSideMessage ==
    \A r \in Requests :
        /\ Times(log[r], "emit_text_block", "SEARCH_ERROR") <= 1
        /\ Times(log[r], "emit_json", "SEARCH_RESULTS")
              + Times(log[r], "emit_text_block", "SEARCH_ERROR") <= 1

(***************************************************************************)
(* C23.  A completed profile is immutable: no step of any request changes  *)
(* startup_idea or any other field of a record whose profile_complete is   *)
(* TRUE, also when requests for the same session overlap at the generation *)
(* and search suspension points.                                           *)
(***************************************************************************)
C23_CompletedProfileImmutable ==
    [][\A s \in Sessions :
          (user_memory[s] # NoProfile /\ user_memory[s].profile_complete)
              => user_memory'[s] = user_memory[s]]_vars

\* Two onboarding answers for the same session overlapped at the hypothesis
\* call; the first has completed the profile and returned, the second has
\* then come back from its own hypothesis call and returned too.
C23_Witness ==
    \E r, q \in Requests :
        /\ r # q
        /\ user_id[r] = user_id[q]
        /\ FoundIncomplete(r) /\ FoundIncomplete(q)
        /\ pc[r] = "returned" /\ pc[q] = "returned"
        /\ Times(log[r], "query", "hypothesis") = 1
        /\ Times(log[q], "query", "hypothesis") = 1
        /\ user_memory[user_id[r]].profile_complete
        /\ user_memory[user_id[r]].startup_idea = prompt[q]

(***************************************************************************)
(* C24.  For each session at most one request performs the completing      *)
(* onboarding transition (the hypothesis call, then the closing "Thanks!"  *)
(* message), also when two requests for the session overlap while its      *)
(* record is incomplete; and when a request completes the onboarding, the  *)
(* startup_idea of the record is that request's own prompt.                *)
(***************************************************************************)
\* Request r has performed the completing transition.
CompletedOnboarding(r) ==
    /\ FoundIncomplete(r)
    /\ pc[r] = "returned"
    /\ Times(log[r], "query", "hypothesis") = 1

C24_OneCompletingTransition ==
    /\ [](\A r, q \in Requests :
            (r # q /\ user_id[r] = user_id[q])
                => ~(CompletedOnboarding(r) /\ CompletedOnboarding(q)))
    /\ [][\A r \in Requests :
            (pc[r] = "hypothesis" /\ pc'[r] = "returned")
                => user_memory'[user_id[r]].startup_idea = prompt[r]]_vars

(***************************************************************************)
(* SpecStreamFair: SpecStream, where _stream_response goes on as long as   *)
(* it has a step to take (each awaited emit_chunk returns).                *)
(***************************************************************************)
SpecStreamFair == SpecStream /\ WF_vars(NextStream)

(***************************************************************************)
(* C25.  Every chunk _stream_response emits is non-empty and holds at most *)
(* 3 words; there are never more chunks than the message has tokens; and   *)
(* the streamer terminates.                                                *)
(***************************************************************************)
ChunksBounded ==
    /\ \A i \in 1..Len(emitted) : emitted[i] # "" /\ Len(Split(emitted[i])) <= 3
    /\ Len(emitted) <= Len(Findall(message))

C25_ChunksSmallAndFinite == []ChunksBounded /\ <>(stream_pc = "done")

\* A message of two tokens or more was streamed with every token as a chunk
\* of its own: the bound on the number of chunks is attained.
C25_Witness ==
    /\ stream_pc = "done"
    /\ Len(emitted) >= 2
    /\ Len(emitted) = Len(Findall(message))

(***************************************************************************)
(* C26.  Output ordering within a request: the FINAL_RESPONSE stream is    *)
(* created before any chunk is emitted; the stream is completed before the *)
(* response handler is; and after the completion of the stream the request *)
(* emits no further chunk and no side-message.                             *)
(***************************************************************************)
Emits(l) == OfKind(l, "emit_chunk") \cup SideMessages(l)

OutputInOrder(l) ==
    /\ \A c \in OfKind(l, "emit_chunk") : \E i \in 1..(c - 1) : l[i] = CreateStream
    /\ \A h \in Named(l, "complete", "response_handler") :
          \E i \in 1..(h - 1) : l[i] = StreamComplete
    /\ \A i \in Named(l, "complete", "FINAL_RESPONSE") :
          \A j \in Emits(l) : j < i

C26_OutputOrdering == \A r \in Requests : OutputInOrder(log[r])

\* A request that fell back after a search without results has returned:
\* notification, SEARCH_ERROR, chunks, then the two completions.
C26_Witness ==
    \E r \in Requests :
        /\ pc[r] = "returned"
        /\ Named(log[r], "emit_text_block", "SEARCH_NOTIFICATION") # {}
        /\ Named(log[r], "emit_text_block", "SEARCH_ERROR") # {}
        /\ OfKind(log[r], "emit_chunk") # {}
        /\ SubSeq(log[r], Len(log[r]) - 1, Len(log[r])) = <<StreamComplete, HandlerComplete>>

====
